---- MODULE Spec2Model ----
(***************************************************************************)
(* Distance correlation (utils_distance_correlation.py): dcov, dvar,       *)
(* cent_dist and dcor.                                                     *)
(*                                                                         *)
(* Numbers.  The inputs are vectors of small integers.  Every value the    *)
(* code derives from them by +, -, *, / is an exact rational, kept as a    *)
(* normalised fraction [num, den].  A value that comes out of np.sqrt is   *)
(* kept as a "root": the non-negative real r with r^deg = val, or nan when *)
(* the argument was negative, or inf for a non-zero value divided by zero. *)
(* Arithmetic is exact: the rounding of 64-bit floating point is not part  *)
(* of this model.                                                          *)
(***************************************************************************)
EXTENDS Integers, Sequences, FiniteSets, TLC

VARIABLES X, Y, pc, MX, MY, A, B, dcov_AB, dvar_A, dvar_B, result, err

vars == <<X, Y, pc, MX, MY, A, B, dcov_AB, dvar_A, dvar_B, result, err>>

(* Bounds of the model. *)
MaxLen == 3
MatDim == 2
MatVal == 1

None == "None"

-----------------------------------------------------------------------------
(* Exact rational arithmetic. *)

Abs(i) == IF i < 0 THEN -i ELSE i

RECURSIVE GCD(_, _)
GCD(a, b) == IF b = 0 THEN a ELSE GCD(b, a % b)

Rat(n, d) ==
    LET g == GCD(Abs(n), Abs(d))
        s == IF d < 0 THEN -1 ELSE 1
    IN  [num |-> (s * n) \div g, den |-> (s * d) \div g]

RInt(i) == [num |-> i, den |-> 1]

RAdd(a, b) == Rat(a.num * b.den + b.num * a.den, a.den * b.den)
RSub(a, b) == Rat(a.num * b.den - b.num * a.den, a.den * b.den)
(* common factors are cancelled crosswise before the products are formed *)
RMul(a, b) ==
    LET g == GCD(Abs(a.num), b.den)
        h == GCD(Abs(b.num), a.den)
    IN  Rat((a.num \div g) * (b.num \div h), (a.den \div h) * (b.den \div g))

RDiv(a, b) ==
    IF b.num < 0 THEN RMul(a, [num |-> -b.den, den |-> -b.num])
    ELSE RMul(a, [num |-> b.den, den |-> b.num])
RLess(a, b) == a.num * b.den < b.num * a.den
RLeq(a, b) == a.num * b.den <= b.num * a.den

RECURSIVE RSumTo(_, _)
RSumTo(s, k) == IF k = 0 THEN RInt(0) ELSE RAdd(RSumTo(s, k - 1), s[k])

RSum(s) == RSumTo(s, Len(s))

(* ndarray.mean of a one-dimensional array *)
Mean(s) == RDiv(RSum(s), RInt(Len(s)))

-----------------------------------------------------------------------------
(* Matrices are sequences of rows. *)

Rows(M) == Len(M)
Cols(M) == Len(M[1])
Shape(M) == <<Rows(M), Cols(M)>>
Row(M, i) == M[i]
Col(M, j) == [i \in 1..Rows(M) |-> M[i][j]]
Flatten(M) == [k \in 1..(Rows(M) * Cols(M)) |->
                 M[((k - 1) \div Cols(M)) + 1][((k - 1) % Cols(M)) + 1]]

MatAdd(P, Q) == [i \in 1..Rows(P) |-> [j \in 1..Cols(P) |-> RAdd(P[i][j], Q[i][j])]]
MatSub(P, Q) == [i \in 1..Rows(P) |-> [j \in 1..Cols(P) |-> RSub(P[i][j], Q[i][j])]]

-----------------------------------------------------------------------------
(* Values that come out of np.sqrt: the real r >= 0 with r^deg = val. *)

Num(d, v) == [kind |-> "num", deg |-> d, val |-> v]
NaN == [kind |-> "nan", deg |-> 1, val |-> RInt(0)]
Inf == [kind |-> "inf", deg |-> 1, val |-> RInt(0)]
Zero == Num(1, RInt(0))

RECURSIVE RPow(_, _)
RPow(q, k) == IF k = 0 THEN RInt(1) ELSE RMul(q, RPow(q, k - 1))

RECURSIVE IPow(_, _)
IPow(n, k) == IF k = 0 THEN 1 ELSE n * IPow(n, k - 1)

Max(a, b) == IF a >= b THEN a ELSE b

(* r as a root of degree d, d a multiple of r.deg *)
Lift(r, d) == Num(d, RPow(r.val, d \div r.deg))

(* np.sqrt of a rational: nan below zero *)
SqrtRat(q) == IF RLess(q, RInt(0)) THEN NaN ELSE Num(2, q)

(* np.sqrt of a root *)
SqrtRoot(r) == IF r.kind # "num" THEN r ELSE Num(2 * r.deg, r.val)

(* r / n for an integer n > 0 *)
RootDivInt(r, n) ==
    IF r.kind # "num" THEN r ELSE Num(r.deg, RDiv(r.val, RInt(IPow(n, r.deg))))

RootMul(a, b) ==
    IF a.kind = "nan" \/ b.kind = "nan" THEN NaN
    ELSE IF a.kind = "inf" THEN (IF b.kind = "num" /\ b.val.num = 0 THEN NaN ELSE Inf)
    ELSE IF b.kind = "inf" THEN (IF a.val.num = 0 THEN NaN ELSE Inf)
    ELSE LET d == Max(a.deg, b.deg)
         IN  Num(d, RMul(Lift(a, d).val, Lift(b, d).val))

(* floating-point division of non-negative values: 0/0 is nan, x/0 is inf *)
RootDiv(a, b) ==
    IF a.kind = "nan" \/ b.kind = "nan" THEN NaN
    ELSE IF a.kind = "inf" THEN (IF b.kind = "inf" THEN NaN ELSE Inf)
    ELSE IF b.kind = "inf" THEN Zero
    ELSE IF b.val.num = 0 THEN (IF a.val.num = 0 THEN NaN ELSE Inf)
    ELSE LET d == Max(a.deg, b.deg)
         IN  Num(d, RDiv(Lift(a, d).val, Lift(b, d).val))

(* x > 0.0 : false for nan *)
Positive(r) == r.kind = "inf" \/ (r.kind = "num" /\ RLess(RInt(0), r.val))

IsZero(r) == r.kind = "num" /\ r.val.num = 0
IsOne(r) == r.kind = "num" /\ r.val = RInt(1)
InUnitInterval(r) == r.kind = "num" /\ RLeq(RInt(0), r.val) /\ RLeq(r.val, RInt(1))

-----------------------------------------------------------------------------
(* The functions of the program. *)

(* faulty variant: the signed difference *)
dist_signed(u, v) == u - v

(* |x_i - x_j| : the euclidean distance of two one-feature rows *)
dist(u, v) == Abs(u - v)

(* squareform(pdist(X)): the full distance matrix of the n rows of X.  pdist *)
(* gives the n(n-1)/2 distances of the pairs; squareform of an empty vector *)
(* of distances (n <= 1) is the 1 x 1 zero matrix.                          *)
squareform_pdist(V) ==
    IF Len(V) <= 1 THEN << <<RInt(0)>> >>
    ELSE [i \in 1..Len(V) |-> [j \in 1..Len(V) |-> RInt(dist(V[i], V[j]))]]

(* faulty variant: the mean of the first row taken for the grand mean *)
grand_mean_first(rmean) == rmean[1]

(* rmean.mean() *)
grand_mean(rmean) == Mean(rmean)

(* M - R - C + G with R, C, G the tiled row means, column means, grand mean *)
center(M) ==
    LET rmean == [i \in 1..Rows(M) |-> Mean(Row(M, i))]
        cmean == [j \in 1..Cols(M) |-> Mean(Col(M, j))]
        gmean == grand_mean(rmean)
        R == [i \in 1..Rows(M) |-> [j \in 1..Rows(M) |-> rmean[i]]]
        C == [i \in 1..Cols(M) |-> [j \in 1..Cols(M) |-> cmean[j]]]
        G == [i \in 1..Rows(M) |-> [j \in 1..Cols(M) |-> gmean]]
    IN  MatAdd(MatSub(MatSub(M, R), C), G)

cent_dist(V) == center(squareform_pdist(V))

(* numpy broadcasting of two 2-D shapes *)
Broadcastable(P, Q) ==
    /\ Rows(P) = Rows(Q) \/ Rows(P) = 1 \/ Rows(Q) = 1
    /\ Cols(P) = Cols(Q) \/ Cols(P) = 1 \/ Cols(Q) = 1

(* P * Q, elementwise, a dimension of size 1 stretched to the other's size *)
Times(P, Q) ==
    LET r == Max(Rows(P), Rows(Q))
        c == Max(Cols(P), Cols(Q))
        at(Z, i, j) == Z[IF Rows(Z) = 1 THEN 1 ELSE i][IF Cols(Z) = 1 THEN 1 ELSE j]
    IN  [i \in 1..r |-> [j \in 1..c |-> RMul(at(P, i, j), at(Q, i, j))]]

ValueError == [kind |-> "ValueError", deg |-> 1, val |-> RInt(0)]

(* faulty variant: n taken as the number of entries *)
dcov_n_size(P) == Rows(P) * Cols(P)

(* X.shape[0] *)
dcov_n(P) == Rows(P)

(* faulty variant: the first matrix multiplied with itself *)
dcov_first_only(P, Q) ==
    IF ~Broadcastable(P, Q) THEN ValueError
    ELSE RootDivInt(SqrtRat(RSum(Flatten(Times(P, P)))), dcov_n(P))

(* np.sqrt(np.sum(X*Y)) / n *)
dcov(P, Q) ==
    IF ~Broadcastable(P, Q) THEN ValueError
    ELSE RootDivInt(SqrtRat(RSum(Flatten(Times(P, Q)))), dcov_n(P))

(* faulty variant: divides by n, not n**2 *)
dvar_div_n(P) ==
    LET n == Rows(P)
        sq == [i \in 1..Rows(P) |-> [j \in 1..Cols(P) |->
                 RDiv(RMul(P[i][j], P[i][j]), RInt(n))]]
    IN  SqrtRat(RSum(Flatten(sq)))

(* np.sqrt(np.sum(X ** 2 / n**2)) *)
dvar(P) ==
    LET n == Rows(P)
        sq == [i \in 1..Rows(P) |-> [j \in 1..Cols(P) |->
                 RDiv(RMul(P[i][j], P[i][j]), RInt(n * n))]]
    IN  SqrtRat(RSum(Flatten(sq)))

(* faulty variant: the assertion dropped *)
same_shape_unchecked(U, V) == TRUE

(* assert X.shape == Y.shape, on one-dimensional arrays *)
same_shape(U, V) == Len(U) = Len(V)

(* faulty variant: or for and *)
either_positive(a, b) == Positive(a) \/ Positive(b)

(* faulty variant: >= for > *)
both_nonnegative(a, b) == a.kind # "nan" /\ b.kind # "nan"

(* dvar_A > 0.0 and dvar_B > 0.0 *)
both_positive(a, b) == Positive(a) /\ Positive(b)

(* faulty variant: the square root of the product left out *)
ratio_no_sqrt(c, a, b) == RootDiv(c, RootMul(a, b))

(* dcov_AB / np.sqrt(dvar_A * dvar_B) *)
ratio(c, a, b) == RootDiv(c, SqrtRoot(RootMul(a, b)))

AssertionError == [kind |-> "AssertionError", deg |-> 1, val |-> RInt(0)]

(* dcor(X, Y) as a function of its arguments: the value returned, or the *)
(* error raised                                                          *)
dcor(U, V) ==
    IF ~same_shape(U, V) THEN AssertionError
    ELSE LET P == cent_dist(U)
             Q == cent_dist(V)
             c == dcov(P, Q)
             a == dvar(P)
             b == dvar(Q)
         IN  IF c = ValueError THEN ValueError
             ELSE IF both_positive(a, b) THEN ratio(c, a, b) ELSE Zero

-----------------------------------------------------------------------------
(* The inputs. *)

(* the observations: integers whose pairwise distances are 1, 2 and 3 *)
Values == {0, 1, 3}

Vectors == UNION {[1..n -> Values] : n \in 0..MaxLen}

Matrices == UNION {[1..r -> [1..c -> {RInt(v) : v \in 0..MatVal}]] :
                     r \in 1..MatDim, c \in 1..MatDim}

(* A call of dcor(X, Y), one step per statement. *)

Init ==
    /\ X \in Vectors
    /\ Y \in Vectors
    /\ pc = "assert"
    /\ MX = None /\ MY = None
    /\ A = None /\ B = None
    /\ dcov_AB = None /\ dvar_A = None /\ dvar_B = None
    /\ result = None
    /\ err = None

(* line 49 *)
AssertShapes ==
    /\ pc = "assert"
    /\ IF same_shape(X, Y)
         THEN pc' = "cent_dist" /\ err' = err
         ELSE pc' = "raised" /\ err' = "AssertionError"
    /\ UNCHANGED <<X, Y, MX, MY, A, B, dcov_AB, dvar_A, dvar_B, result>>

(* line 51 *)
CentDist ==
    /\ pc = "cent_dist"
    /\ MX' = squareform_pdist(X)
    /\ MY' = squareform_pdist(Y)
    /\ A' = center(MX')
    /\ B' = center(MY')
    /\ pc' = "stats"
    /\ UNCHANGED <<X, Y, dcov_AB, dvar_A, dvar_B, result, err>>

(* lines 53-54 *)
Stats ==
    /\ pc = "stats"
    /\ LET c == dcov(A, B)
       IN  IF c = ValueError
             THEN /\ pc' = "raised" /\ err' = "ValueError"
                  /\ UNCHANGED <<dcov_AB, dvar_A, dvar_B>>
             ELSE /\ dcov_AB' = c
                  /\ dvar_A' = dvar(A)
                  /\ dvar_B' = dvar(B)
                  /\ pc' = "branch" /\ err' = err
    /\ UNCHANGED <<X, Y, MX, MY, A, B, result>>

(* lines 56-60 *)
Return ==
    /\ pc = "branch"
    /\ result' = IF both_positive(dvar_A, dvar_B)
                   THEN ratio(dcov_AB, dvar_A, dvar_B)
                   ELSE Zero
    /\ pc' = "done"
    /\ UNCHANGED <<X, Y, MX, MY, A, B, dcov_AB, dvar_A, dvar_B, err>>

Next == AssertShapes \/ CentDist \/ Stats \/ Return

Spec == Init /\ [][Next]_vars

(* A call of dcov(A, B) on two matrices of any shapes. *)

InitDcov ==
    /\ A \in Matrices
    /\ B \in Matrices
    /\ pc = "dcov"
    /\ X = <<>> /\ Y = <<>>
    /\ MX = None /\ MY = None
    /\ dcov_AB = None /\ dvar_A = None /\ dvar_B = None
    /\ result = None
    /\ err = None

(* lines 18-19 *)
CallDcov ==
    /\ pc = "dcov"
    /\ LET c == dcov(A, B)
       IN  IF c = ValueError
             THEN pc' = "raised" /\ err' = "ValueError" /\ dcov_AB' = dcov_AB
             ELSE pc' = "done" /\ err' = err /\ dcov_AB' = c
    /\ UNCHANGED <<X, Y, MX, MY, A, B, dvar_A, dvar_B, result>>

NextDcov == CallDcov

SpecDcov == InitDcov /\ [][NextDcov]_vars

-----------------------------------------------------------------------------
(* Properties. *)

Centered == pc \in {"stats", "branch", "done"}
Measured == pc \in {"branch", "done"}

IsConstant(V) == \A i, j \in 1..Len(V) : V[i] = V[j]
AllZero(M) == \A i \in 1..Rows(M) : \A j \in 1..Cols(M) : M[i][j] = RInt(0)
SumProd(P, Q) == RSum([k \in 1..(Rows(P) * Cols(P)) |->
                         RMul(Flatten(P)[k], Flatten(Q)[k])])
ZeroSums(M) ==
    /\ \A i \in 1..Rows(M) : RSum(Row(M, i)) = RInt(0)
    /\ \A j \in 1..Cols(M) : RSum(Col(M, j)) = RInt(0)

(* C1: when the lengths of X and Y differ, dcor raises at its first        *)
(* statement: the call ends in the assertion's error, and no distance      *)
(* matrix, centered matrix, covariance, variance or result exists.         *)
C1_MismatchRaisesFirst ==
    (Len(X) # Len(Y) /\ pc # "assert") =>
        /\ pc = "raised"
        /\ err = "AssertionError"
        /\ MX = None /\ MY = None /\ A = None /\ B = None
        /\ dcov_AB = None /\ dvar_A = None /\ dvar_B = None
        /\ result = None

C1_Witness == Len(X) = 3 /\ Len(Y) = 2 /\ pc = "raised" /\ err = "AssertionError"

(* C2: when X or Y is a constant vector (and the lengths agree), its       *)
(* centered matrix is all zero, its distance variance is zero, and dcor    *)
(* returns the number 0.0: not nan, not an error.                          *)
C2_ConstantGivesZero ==
    /\ (Centered /\ IsConstant(X)) => AllZero(A)
    /\ (Centered /\ IsConstant(Y)) => AllZero(B)
    /\ (Measured /\ IsConstant(X)) => IsZero(dvar_A)
    /\ (Measured /\ IsConstant(Y)) => IsZero(dvar_B)
    /\ (Len(X) = Len(Y) /\ (IsConstant(X) \/ IsConstant(Y))) =>
          /\ pc # "raised"
          /\ pc = "done" => IsZero(result)

C2_Witness ==
    /\ pc = "done" /\ Len(X) = 3
    /\ IsConstant(X) /\ ~IsConstant(Y)
    /\ IsZero(result) /\ Positive(dvar_B)

(* C3: the value dcor returns for (X, Y) is the value it returns for       *)
(* (Y, X), in the positive-variance branch and in the fallback alike.      *)
C3_Symmetric == pc = "done" => result = dcor(Y, X)

C3_Witness ==
    /\ pc = "done" /\ X # Y
    /\ Positive(dvar_A) /\ Positive(dvar_B)
    /\ dvar_A # dvar_B
    /\ ~IsZero(result) /\ ~IsOne(result)

C5_SelfCorrelation ==
    (X = Y /\ ~IsConstant(X)) =>
        /\ pc # "raised"
        /\ Measured => Positive(dvar_A)
        /\ pc = "done" => IsOne(result)

C5_Witness == pc = "done" /\ X = Y /\ ~IsConstant(X) /\ Len(X) = 3 /\ IsOne(result)

(* C6: for n >= 1 the centered matrix has the n x n shape of the distance  *)
(* matrix, each of its rows and columns sums to 0, and the mean of the row *)
(* means is the mean of all entries.                                       *)
C6_DoubleCentered ==
    (Centered /\ Len(X) >= 1) =>
        /\ Shape(MX) = <<Len(X), Len(X)>> /\ Shape(A) = Shape(MX)
        /\ Shape(MY) = <<Len(Y), Len(Y)>> /\ Shape(B) = Shape(MY)
        /\ ZeroSums(A) /\ ZeroSums(B)
        /\ grand_mean([i \in 1..Rows(MX) |-> Mean(Row(MX, i))]) = Mean(Flatten(MX))
        /\ grand_mean([i \in 1..Rows(MY) |-> Mean(Row(MY, i))]) = Mean(Flatten(MY))

C6_Witness == Centered /\ Len(X) = 3 /\ ~AllZero(A) /\ ZeroSums(A)

(* C8: for n >= 1 the distance matrix is n x n with entry (i,j) =          *)
(* |x_i - x_j|, symmetric, zero on the diagonal, nowhere negative; for     *)
(* n = 1 it is the 1 x 1 zero matrix.                                      *)
DistanceMatrix(M, V) ==
    /\ Shape(M) = <<Len(V), Len(V)>>
    /\ \A i, j \in 1..Len(V) :
          /\ M[i][j] = RInt(Abs(V[i] - V[j]))
          /\ M[i][j] = M[j][i]
          /\ RLeq(RInt(0), M[i][j])
    /\ \A i \in 1..Len(V) : M[i][i] = RInt(0)
    /\ Len(V) = 1 => M = << <<RInt(0)>> >>

C8_DistanceMatrix ==
    (Centered /\ Len(X) >= 1) => (DistanceMatrix(MX, X) /\ DistanceMatrix(MY, Y))

C8_Witness == Centered /\ Len(X) = 3 /\ ~IsConstant(X) /\ DistanceMatrix(MX, X)

(* C9: the distance variance of a centered matrix is its distance          *)
(* covariance with itself, sqrt(sum of A(i,j)^2) / n with n the number of  *)
(* rows, and is a number >= 0.                                             *)
C9_VarianceIsSelfCovariance ==
    Measured =>
        /\ dvar_A = dcov(A, A) /\ dvar_B = dcov(B, B)
        /\ dvar_A = RootDivInt(SqrtRat(SumProd(A, A)), Rows(A))
        /\ dvar_B = RootDivInt(SqrtRat(SumProd(B, B)), Rows(B))
        /\ dvar_A.kind = "num" /\ RLeq(RInt(0), dvar_A.val)
        /\ dvar_B.kind = "num" /\ RLeq(RInt(0), dvar_B.val)

C9_Witness == Measured /\ Len(X) = 3 /\ Positive(dvar_A) /\ dvar_A = dcov(A, A)

(* C10: two singleton vectors, or two empty ones, run to the end and give  *)
(* 0.0; the only error a call of dcor ends in is the one for differing     *)
(* lengths.                                                                *)
C10_DegenerateInputs ==
    /\ (Len(X) <= 1 /\ Len(Y) = Len(X)) =>
          /\ pc # "raised" /\ err = None
          /\ pc = "done" => IsZero(result)
    /\ pc = "raised" => (err = "AssertionError" /\ Len(X) # Len(Y))
    /\ pc # "raised" => err = None

C10_Witness ==
    /\ pc = "done" /\ IsZero(result)
    /\ Len(X) = 1 /\ Len(Y) = 1

(* C7: dcov on two matrices of different shapes ends in an error and       *)
(* returns no value.                                                       *)
C7_MismatchRaises ==
    (Shape(A) # Shape(B) /\ pc # "dcov") => (pc = "raised" /\ dcov_AB = None)

====
